---- MODULE Spec2Model ----
(***************************************************************************)
(* Restricted Hartree-Fock pipeline of Hartree_Fock/main_hf_program.py:    *)
(* basis construction, the integral stages, electron count, nuclear        *)
(* repulsion and the SCF loop, as a state machine.                         *)
(*                                                                         *)
(* Numbers.  Energies are integers in units of 1/EnergyUnit Hartree, so    *)
(* that the threshold 1e-5 and the quotients Z_a*Z_b/|R_a-R_b| of the      *)
(* modelled geometries are exact.  A tabulated STO-3G exponent x is the    *)
(* pair <<whole, frac>> with x = whole + frac/10^8; a contraction          *)
(* coefficient c is the integer c*10^8.  Python's 0-based index i is the   *)
(* 1-based index i+1 here.                                                 *)
(***************************************************************************)
EXTENDS Integers, Sequences, FiniteSets, TLC

\* ------------------------------------------------------------------ bounds
MaxAtoms == 3
MaxCoord == 2
MaxNu == 2
MaxX == 4
MaxL == 2

\* element symbols the inputs are drawn from: two with a subshell entry, two
\* without (both of these have an atomic number and an exponent row)
Symbols == {"H", "O", "He", "C"}

\* ------------------------------------------------------- module-level data
a ==
  << << << <<0, 16885540>>, <<0, 62391373>>, <<3, 42525091>> >>,
        << <<0, 0>>, <<0, 0>>, <<0, 0>> >> >>,
     << << <<0, 31364979>>, <<1, 15892300>>, <<6, 36242139>> >>,
        << <<0, 0>>, <<0, 0>>, <<0, 0>> >> >>,
     << << <<0, 79465050>>, <<2, 93620070>>, <<16, 11957500>> >>,
        << <<0, 4808870>>, <<0, 14786010>>, <<0, 63628970>> >> >>,
     << << <<1, 48719270>>, <<5, 49511530>>, <<30, 16787100>> >>,
        << <<0, 9937070>>, <<0, 30553890>>, <<1, 31483310>> >> >>,
     << << <<2, 40526700>>, <<8, 88736220>>, <<48, 79111300>> >>,
        << <<0, 16906180>>, <<0, 51982050>>, <<2, 23695610>> >> >>,
     << << <<3, 53051220>>, <<13, 4509600>>, <<71, 61683700>> >>,
        << <<0, 22228990>>, <<0, 68348310>>, <<2, 94124940>> >> >>,
     << << <<4, 88566020>>, <<18, 5231200>>, <<99, 10616900>> >>,
        << <<0, 28571440>>, <<0, 87849660>>, <<3, 78045590>> >> >>,
     << << <<6, 44360830>>, <<23, 80886100>>, <<130, 70932000>> >>,
        << <<0, 38038900>>, <<1, 16959610>>, <<5, 3315130>> >> >> >>

d ==
  << <<44463454, 53532814, 15432897>>,
     <<70011547, 39951283, -9996723>>,
     <<39195739, 60768372, 15591627>> >>

Z ==
  ("H" :> 1) @@ ("He" :> 2) @@ ("Li" :> 3) @@ ("Be" :> 4) @@ ("B" :> 5) @@
  ("C" :> 6) @@ ("N" :> 7) @@ ("O" :> 8) @@ ("F" :> 9) @@ ("Ne" :> 10) @@
  ("K" :> 19) @@ ("Ca" :> 20) @@ ("Sc" :> 21)

subshells ==
  ("H" :> <<"1s">>) @@ ("O" :> <<"1s", "2s", "2p">>)

scf_max_iter == 20

\* energy units per Hartree
EnergyUnit == 6 * 100000

\* convergence = 1e-5 Hartree
convergence == EnergyUnit \div 100000

\* electronic energies an SCF iteration can produce (the linear algebra is
\* not modelled: every iteration draws its Eel from this set)
EelValues == {-30, -24, -20, 0, 3}

\* ------------------------------------------------------------------- state
VARIABLES
  atoms,         \* module-level list of element symbols
  R,             \* module-level list of coordinates
  pc,            \* position of the script
  err,           \* exception that ended the run, "none" while it runs
  orbitalbasis,  \* basis returned by build_sto3Gbasis
  K,             \* basis size returned by build_sto3Gbasis
  computed,      \* integral tensors built so far
  N,             \* electron count
  Vnn,           \* nuclear repulsion energy
  iteration,     \* loop variable of the SCF loop, -1 before the loop
  count,         \* iteration counter printed by compute_HFenergy
  Eel,           \* electronic energy
  E_old,         \* electronic energy of the previous cycle
  status,        \* SCF state: Idle, Iterating, Converged, MaxIterReached
  steps,         \* number of SCF loop bodies executed
  nocc,          \* columns of C summed into the density, -1 before any
  ret,           \* value returned by compute_HFenergy
  out,           \* final lines printed by compute_HFenergy
  Ndef,          \* the module-level name N is still bound to "def N"
  files,         \* files of the working directory, as [name, content]
  run,           \* which execution of the pipeline section this is
  first,         \* what the first execution produced
  call,          \* a function called on its own: its name and arguments
  result,        \* what that call returned
  scf            \* the arrays of compute_HFenergy, by name

vars == << atoms, R, pc, err, orbitalbasis, K, computed, N, Vnn, iteration,
           count, Eel, E_old, status, steps, nocc, ret, out, Ndef, files,
           run, first, call, result, scf >>

\* the state of the script
script == << atoms, R, pc, err, orbitalbasis, K, computed, N, Vnn, iteration,
             count, Eel, E_old, status, steps, nocc, ret, out, Ndef, run,
             first, scf >>

\* ----------------------------------------------------------------- helpers
SeqsUpTo(S, n) == UNION { [1..k -> S] : k \in 0..n }

Abs(x) == IF x < 0 THEN -x ELSE x

Point(z) == <<0, 0, z>>

IJsq(RI, RJ) ==
  (RI[1] - RJ[1]) * (RI[1] - RJ[1]) + (RI[2] - RJ[2]) * (RI[2] - RJ[2])
    + (RI[3] - RJ[3]) * (RI[3] - RJ[3])

\* math.sqrt on the squared distances of the modelled geometries (all of
\* them perfect squares)
sqrt(x) == CHOOSE r \in 0..x : r * r <= x /\ (r + 1) * (r + 1) > x

aRowMutSecond(atom, row) == a[(Z[atom] - 1) + 1][2]

aRowMutShort(atom, row) == SubSeq(a[(Z[atom] - 1) + 1][row + 1], 1, 2)

\* ----------------------------------------------------------- basis builder
\* a[ (Z[atom]-1) ][row]
aRow(atom, row) == a[(Z[atom] - 1) + 1][row + 1]

AtomicOrbital(atom, Ri, o, l, m, n, row, dIdx) ==
  [ Z |-> Z[atom], o |-> o, R |-> Ri, l |-> l, m |-> m, n |-> n,
    a |-> aRow(atom, row), d |-> d[dIdx + 1] ]

Append2pMutSwap(atom, Ri) ==
  << AtomicOrbital(atom, Ri, "2px", 1, 0, 0, 1, 2),
     AtomicOrbital(atom, Ri, "2py", 0, 0, 1, 1, 2),
     AtomicOrbital(atom, Ri, "2pz", 0, 1, 0, 1, 2) >>

\* the three appends of the '2p' branch
Append2p(atom, Ri) ==
  << AtomicOrbital(atom, Ri, "2px", 1, 0, 0, 1, 2),
     AtomicOrbital(atom, Ri, "2py", 0, 1, 0, 1, 2),
     AtomicOrbital(atom, Ri, "2pz", 0, 0, 1, 1, 2) >>

\* orbitals one pass of the subshell loop body appends
AppendSubshell(subshell, atom, Ri) ==
  (IF subshell = "1s"
     THEN << AtomicOrbital(atom, Ri, subshell, 0, 0, 0, 0, 0) >> ELSE << >>)
  \o (IF subshell = "2s"
     THEN << AtomicOrbital(atom, Ri, subshell, 0, 0, 0, 1, 1) >> ELSE << >>)
  \o (IF subshell = "2p" THEN Append2p(atom, Ri) ELSE << >>)

KIncrementMutOnce(subshell) ==
  (IF subshell = "1s" THEN 1 ELSE 0) + (IF subshell = "2s" THEN 1 ELSE 0)
    + (IF subshell = "2p" THEN 1 ELSE 0)

\* what the "K += 1" statements of one pass of the subshell loop body add
KIncrement(subshell) ==
  (IF subshell = "1s" THEN 1 ELSE 0) + (IF subshell = "2s" THEN 1 ELSE 0)
    + (IF subshell = "2p" THEN 1 + 1 + 1 ELSE 0)

SubshellLookupMutDefault(atom) ==
  IF atom \in DOMAIN subshells
    THEN [ok |-> TRUE, list |-> subshells[atom]]
    ELSE [ok |-> TRUE, list |-> <<"1s">>]

\* subshells[atom]: the list, or KeyError
SubshellLookup(atom) ==
  IF atom \in DOMAIN subshells
    THEN [ok |-> TRUE, list |-> subshells[atom]]
    ELSE [ok |-> FALSE, list |-> << >>]

\* the subshell loop of atom number i (1-based), from subshell j on
RECURSIVE SubshellLoop(_, _, _, _, _, _)
SubshellLoop(list, j, atom, i, R_, acc) ==
  IF j > Len(list) THEN acc
  ELSE IF i > Len(R_)
    THEN [acc EXCEPT !.err = "IndexError"]
  ELSE SubshellLoop(list, j + 1, atom, i, R_,
         [acc EXCEPT !.basis = @ \o AppendSubshell(list[j], atom, R_[i]),
                     !.K = @ + KIncrement(list[j])])

\* the atom loop from atom number i (1-based) on
RECURSIVE AtomLoop(_, _, _, _)
AtomLoop(atoms_, R_, i, acc) ==
  IF i > Len(atoms_) THEN acc
  ELSE LET look == SubshellLookup(atoms_[i]) IN
    IF ~look.ok THEN [acc EXCEPT !.err = "KeyError"]
    ELSE LET next == SubshellLoop(look.list, 1, atoms_[i], i, R_, acc) IN
      IF next.err # "none" THEN next
      ELSE AtomLoop(atoms_, R_, i + 1, next)

\* build_sto3Gbasis(atoms, R): err is the exception raised ("none": the
\* function returned (basis, K))
build_sto3Gbasis(atoms_, R_) ==
  AtomLoop(atoms_, R_, 1, [err |-> "none", basis |-> << >>, K |-> 0])

\* ------------------------------------------------------------ other stages
fname == "h2o.xyz"

\* open(name, 'wb') or open(name, 'w'): the file exists afterwards and is
\* empty
OpenForWriting(files_, name) ==
  {f \in files_ : f.name # name} \cup {[name |-> name, content |-> << >>]}

\* buildS: its innermost statement calls the module-level N(a,l,m,n) for
\* every orbital pair
buildS(basis_, Ndef_) ==
  IF Len(basis_) > 0 /\ ~Ndef_ THEN "TypeError" ELSE "none"

\* buildT and buildG call N(a,l,m,n) in the same way, buildG inside Gxyz
buildT(basis_, Ndef_) ==
  IF Len(basis_) > 0 /\ ~Ndef_ THEN "TypeError" ELSE "none"

buildG(basis_, Ndef_) ==
  IF Len(basis_) > 0 /\ ~Ndef_ THEN "TypeError" ELSE "none"

\* n, "Total Number of Atoms", the first dimension of V
NumAtoms(atoms_) == Len(atoms_)

\* buildV: its innermost statement indexes V[C] and atoms[C] for every C of
\* enumerate(R), for every orbital pair
buildV(basis_, R_, atoms_) ==
  IF Len(basis_) > 0 /\ Len(R_) > NumAtoms(atoms_)
    THEN "IndexError" ELSE "none"

ElectronTermMutOne(A) == 1

\* the amount "N += Z[A]" adds
ElectronTerm(A) == Z[A]

RECURSIVE ElectronLoop(_, _, _)
ElectronLoop(atoms_, i, acc) ==
  IF i > Len(atoms_) THEN acc
  ELSE ElectronLoop(atoms_, i + 1, acc + ElectronTerm(atoms_[i]))

electronCount(atoms_) == ElectronLoop(atoms_, 1, 0)

PairCountedMutBoth(ia, ib) == ib # ia

\* "if b > a" of nuclearRepulsion
PairCounted(ia, ib) == ib > ia

\* the double loop of nuclearRepulsion from the index pair (ia, ib) on; it
\* reads the module-level R
RECURSIVE RepulsionLoop(_, _, _, _)
RepulsionLoop(atoms_, ia, ib, acc) ==
  IF ia > Len(atoms_) THEN acc
  ELSE IF ib > Len(atoms_) THEN RepulsionLoop(atoms_, ia + 1, 1, acc)
  ELSE IF ~PairCounted(ia, ib) THEN RepulsionLoop(atoms_, ia, ib + 1, acc)
  ELSE IF ia > Len(R) \/ ib > Len(R)
    THEN [acc EXCEPT !.err = "IndexError"]
  ELSE LET num == Z[atoms_[ia]] * Z[atoms_[ib]]
           den == sqrt(IJsq(R[ia], R[ib]))
       IN IF den = 0
            THEN [acc EXCEPT !.err = "ZeroDivisionError"]
            ELSE RepulsionLoop(atoms_, ia, ib + 1,
                   [acc EXCEPT !.Vnn = @ + (num * EnergyUnit) \div den])

nuclearRepulsion(atoms_) ==
  RepulsionLoop(atoms_, 1, 1, [err |-> "none", Vnn |-> 0])

\* -------------------------------------------------------------- SCF solver
ConvergedTestMutFirst(Eel_, E_old_, iteration_) ==
  Abs(Eel_ - E_old_) < convergence

\* (np.fabs(Eel - E_old) < convergence) and (iteration > 0)
ConvergedTest(Eel_, E_old_, iteration_) ==
  Abs(Eel_ - E_old_) < convergence /\ iteration_ > 0

OccupiedMutAll(N_) == N_

\* range(int(N/2)) of the density loop
Occupied(N_) == N_ \div 2

\* Eel of one iteration: the sum over D is 0 when the basis is empty or no
\* column is occupied, otherwise whatever the diagonalisation gives
EelChoices(K_, nocc_) == IF K_ = 0 \/ nocc_ = 0 THEN {0} ELSE EelValues

\* linalg.sqrtm(linalg.inv(S)) on the K x K overlap matrix: whether the
\* LAPACK wrappers accept a 0 x 0 matrix depends on the library version
InverseOutcomes(K_) == IF K_ = 0 THEN {"none", "ValueError"} ELSE {"none"}

\* ----------------------------------------------------------------- actions
Init ==
  /\ atoms \in SeqsUpTo(Symbols, MaxAtoms)
  /\ R \in SeqsUpTo({Point(z) : z \in 0..MaxCoord}, MaxAtoms)
  /\ pc = "basis"
  /\ err = "none"
  /\ orbitalbasis = << >>
  /\ K = 0
  /\ computed = {}
  /\ N = 0
  /\ Vnn = 0
  /\ iteration = -1
  /\ count = 0
  /\ Eel = 0
  /\ E_old = 0
  /\ status = "Idle"
  /\ steps = 0
  /\ nocc = -1
  /\ ret = [kind |-> "unset"]
  /\ out = [printed |-> FALSE]
  /\ Ndef = TRUE
  /\ files = {}
  /\ run = 1
  /\ first = [kind |-> "unset"]
  /\ call = [fn |-> "none"]
  /\ result = [kind |-> "unset"]
  /\ scf = [kind |-> "unset"]

\* orbitalbasis, K = build_sto3Gbasis(atoms, R)
BuildBasis ==
  /\ pc = "basis"
  /\ LET r == build_sto3Gbasis(atoms, R) IN
       IF r.err # "none"
         THEN /\ err' = r.err
              /\ pc' = "failed"
              /\ UNCHANGED << orbitalbasis, K >>
         ELSE /\ orbitalbasis' = r.basis
              /\ K' = r.K
              /\ pc' = "S"
              /\ UNCHANGED err
  /\ UNCHANGED << atoms, R, computed, N, Vnn, iteration, count, Eel, E_old,
                  status, steps, nocc, ret, out >>
  /\ UNCHANGED << Ndef, files, run, first, call, result, scf >>

\* S = buildS(orbitalbasis, S)
BuildS ==
  /\ pc = "S"
  /\ LET e == buildS(orbitalbasis, Ndef) IN
       IF e # "none"
         THEN /\ err' = e
              /\ pc' = "failed"
              /\ UNCHANGED computed
         ELSE /\ computed' = computed \cup {"S"}
              /\ pc' = "T"
              /\ UNCHANGED err
  /\ UNCHANGED << atoms, R, orbitalbasis, K, N, Vnn, iteration, count,
                  Eel, E_old, status, steps, nocc, ret, out >>
  /\ UNCHANGED << Ndef, files, run, first, call, result, scf >>

\* T = buildT(orbitalbasis, T), then Tsave = open('T.'+fname+'.npy','wb')
BuildT ==
  /\ pc = "T"
  /\ computed' = computed \cup {"T"}
  /\ files' = OpenForWriting(files, <<"T.", fname, ".npy">>)
  /\ pc' = "V"
  /\ UNCHANGED << atoms, R, err, orbitalbasis, K, N, Vnn, iteration, count,
                  Eel, E_old, status, steps, nocc, ret, out >>
  /\ UNCHANGED << Ndef, run, first, call, result, scf >>

\* V = buildV(orbitalbasis, V, R, Z, atoms) and the sum of its slices
BuildV ==
  /\ pc = "V"
  /\ LET e == buildV(orbitalbasis, R, atoms) IN
       IF e # "none"
         THEN /\ err' = e
              /\ pc' = "failed"
              /\ UNCHANGED computed
         ELSE /\ computed' = computed \cup {"V"}
              /\ pc' = "G"
              /\ UNCHANGED err
  /\ UNCHANGED << atoms, R, orbitalbasis, K, N, Vnn, iteration, count, Eel,
                  E_old, status, steps, nocc, ret, out >>
  /\ UNCHANGED << Ndef, files, run, first, call, result, scf >>

\* G = buildG(orbitalbasis, G, K)
BuildG ==
  /\ pc = "G"
  /\ computed' = computed \cup {"G"}
  /\ pc' = "N"
  /\ UNCHANGED << atoms, R, err, orbitalbasis, K, N, Vnn, iteration, count,
                  Eel, E_old, status, steps, nocc, ret, out >>
  /\ UNCHANGED << Ndef, files, run, first, call, result, scf >>

\* N = electronCount(atoms)
CountElectrons ==
  /\ pc = "N"
  /\ N' = electronCount(atoms)
  /\ pc' = "Vnn"
  /\ UNCHANGED << atoms, R, err, orbitalbasis, K, computed, Vnn, iteration,
                  count, Eel, E_old, status, steps, nocc, ret, out >>
  /\ Ndef' = FALSE
  /\ UNCHANGED << files, run, first, call, result, scf >>

\* Vnn = nuclearRepulsion(atoms)
NuclearRepulsion ==
  /\ pc = "Vnn"
  /\ LET r == nuclearRepulsion(atoms) IN
       IF r.err # "none"
         THEN /\ err' = r.err
              /\ pc' = "failed"
              /\ UNCHANGED Vnn
         ELSE /\ Vnn' = r.Vnn
              /\ pc' = "scf"
              /\ UNCHANGED err
  /\ UNCHANGED << atoms, R, orbitalbasis, K, computed, N, iteration, count,
                  Eel, E_old, status, steps, nocc, ret, out >>
  /\ UNCHANGED << Ndef, files, run, first, call, result, scf >>

\* The arrays of compute_HFenergy are followed by name.  What is kept of an
\* array is: tag, the statement that gave it its present content (its name
\* and the iteration step, 0 before the loop); val, the tag of the content
\* it is equal to; zero, whether it is all zeros; deps, the arguments of
\* compute_HFenergy its content depends on; from, the tags of the arrays it
\* was computed from.

\* an argument of compute_HFenergy
Argument(name) ==
  [tag |-> <<name, 0>>, val |-> <<name, 0>>, zero |-> FALSE, deps |-> {name},
   from |-> << >>]

\* a name the function has not assigned yet
Unbound(name) ==
  [tag |-> <<name, -1>>, val |-> <<name, -1>>, zero |-> FALSE, deps |-> {},
   from |-> << >>]

\* np.zeros((K,K)), and the 0.0 of Eel
npzeros(name) ==
  [tag |-> <<name, 0>>, val |-> <<"zeros", 0>>, zero |-> TRUE, deps |-> {},
   from |-> << >>]

InitialDensityMutGuess == Argument("D")

\* D = np.zeros((K,K))
InitialDensity == npzeros("D")

\* x + y of two arrays, as content of the array tagged <<name, k>>: adding
\* zeros gives the other operand
Sum(name, k, x, y) ==
  [tag |-> <<name, k>>,
   val |-> IF y.zero THEN x.val ELSE IF x.zero THEN y.val ELSE <<name, k>>,
   zero |-> x.zero /\ y.zero,
   deps |-> IF y.zero THEN x.deps ELSE IF x.zero THEN y.deps
            ELSE x.deps \cup y.deps,
   from |-> <<x.tag, y.tag>>]

AssignSumMutInPlace(env, target, k, x, y) ==
  [env EXCEPT ![x] = Sum(x, k, env[x], env[y]),
              ![target] = Sum(x, k, env[x], env[y])]

\* target = x + y: the sum is a new array, bound to the name target
AssignSum(env, target, k, x, y) ==
  [env EXCEPT ![target] = Sum(target, k, env[x], env[y])]

ContractMutNoReset(env, k) ==
  [env EXCEPT !["P"] =
     [tag |-> <<"P", k>>, val |-> <<"P", k>>,
      zero |-> env["P"].zero /\ env["D"].zero,
      deps |-> env["P"].deps \cup
               (IF env["D"].zero THEN {}
                ELSE env["D"].deps \cup env["G"].deps),
      from |-> <<env["P"].tag, env["D"].tag, env["G"].tag>>]]

\* P[m,n] = 0.0, then P[m,n] += D[l,s] * (G[m,n,s,l] - 0.5 * G[m,l,s,n]):
\* every cell of P is overwritten, and is 0.0 when D is all zeros
Contract(env, k) ==
  [env EXCEPT !["P"] =
     [tag |-> <<"P", k>>,
      val |-> IF env["D"].zero THEN <<"zeros", 0>> ELSE <<"P", k>>,
      zero |-> env["D"].zero,
      deps |-> IF env["D"].zero THEN {}
               ELSE env["D"].deps \cup env["G"].deps,
      from |-> <<env["D"].tag, env["G"].tag>>]]

\* Fp = X @ F @ X; e, Cp = linalg.eigh(Fp); C = X @ Cp
Orbitals(env, k) ==
  [env EXCEPT !["C"] =
     [tag |-> <<"C", k>>, val |-> <<"C", k>>, zero |-> FALSE,
      deps |-> env["X"].deps \cup env["F"].deps,
      from |-> <<env["X"].tag, env["F"].tag>>]]

\* D[m,n] = 0.0, then D[m,n] += 2 * (C[m,a] * C[n,a]) for a in
\* range(int(N/2)): every cell of D is overwritten
Density(env, k, N_) ==
  [env EXCEPT !["D"] =
     [tag |-> <<"D", k>>,
      val |-> IF Occupied(N_) = 0 THEN <<"zeros", 0>> ELSE <<"D", k>>,
      zero |-> Occupied(N_) = 0,
      deps |-> IF Occupied(N_) = 0 THEN {"N"} ELSE env["C"].deps \cup {"N"},
      from |-> <<env["C"].tag>>]]

\* Eel = 0.0, then Eel += 0.5 * D[n,m] * (Hcore[m,n] + F[m,n])
Energy(env, k) ==
  [env EXCEPT !["Eel"] =
     [tag |-> <<"Eel", k>>, val |-> <<"Eel", k>>, zero |-> env["D"].zero,
      deps |-> IF env["D"].zero THEN env["D"].deps
               ELSE env["D"].deps \cup env["Hcore"].deps \cup env["F"].deps,
      from |-> <<env["D"].tag, env["Hcore"].tag, env["F"].tag>>]]

\* compute_HFenergy before its loop: the arguments, Hcore = T + V, D, P,
\* X = linalg.sqrtm(linalg.inv(S)), Eel = 0.0; F and C are first assigned
\* in the loop
BeforeLoop(K_) ==
  LET args == [S |-> Argument("S"), T |-> Argument("T"), V |-> Argument("V"),
               G |-> Argument("G"),
               Hcore |-> Unbound("Hcore"), D |-> InitialDensity,
               P |-> npzeros("P"),
               X |-> [tag |-> <<"X", 0>>, val |-> <<"X", 0>>, zero |-> FALSE,
                      deps |-> {"S"}, from |-> << <<"S", 0>> >>],
               F |-> Unbound("F"), C |-> Unbound("C"),
               Eel |-> npzeros("Eel")]
  IN AssignSum(args, "Hcore", 0, "T", "V")

\* the body of the loop in its step k, down to the energy
IterationBody(env, k, N_) ==
  Energy(Density(Orbitals(AssignSum(Contract(env, k), "F", k, "Hcore", "P"),
                          k), k, N_), k)

\* compute_HFenergy up to the loop: Hcore, D, P, X, count = 1, Eel = 0.0
SCFStart ==
  /\ pc = "scf"
  /\ \E e \in InverseOutcomes(K) :
       IF e # "none"
         THEN /\ err' = e
              /\ pc' = "failed"
              /\ UNCHANGED << count, Eel, status, scf >>
         ELSE /\ count' = 1
              /\ Eel' = 0
              /\ status' = "Iterating"
              /\ pc' = "loop"
              /\ scf' = BeforeLoop(K)
              /\ UNCHANGED err
  /\ UNCHANGED << atoms, R, orbitalbasis, K, computed, N, Vnn, iteration,
                  E_old, steps, nocc, ret, out >>
  /\ UNCHANGED << Ndef, files, run, first, call, result >>

\* one pass of the body of "for iteration in range(scf_max_iter+1)"
SCFIterate ==
  /\ pc = "loop"
  /\ status = "Iterating"
  /\ iteration + 1 < scf_max_iter + 1
  /\ iteration' = iteration + 1
  /\ E_old' = Eel
  /\ nocc' = Occupied(N)
  /\ \E e \in EelChoices(K, Occupied(N)) : Eel' = e
  /\ steps' = steps + 1
  /\ scf' = IterationBody(scf, steps + 1, N)
  /\ IF ConvergedTest(Eel', E_old', iteration')
       THEN /\ status' = "Converged"
            /\ UNCHANGED count
       ELSE /\ count' = count + 1
            /\ UNCHANGED status
  /\ UNCHANGED << atoms, R, pc, err, orbitalbasis, K, computed, N, Vnn, ret,
                  out >>
  /\ UNCHANGED << Ndef, files, run, first, call, result >>

\* the range is exhausted: the loop ends without a break
SCFExhaust ==
  /\ pc = "loop"
  /\ status = "Iterating"
  /\ ~(iteration + 1 < scf_max_iter + 1)
  /\ status' = "MaxIterReached"
  /\ UNCHANGED << atoms, R, pc, err, orbitalbasis, K, computed, N, Vnn,
                  iteration, count, Eel, E_old, steps, nocc, ret, out >>
  /\ UNCHANGED << Ndef, files, run, first, call, result, scf >>

\* the closing prints; the function has no return statement
Report ==
  /\ pc = "loop"
  /\ status \in {"Converged", "MaxIterReached"}
  /\ out' = [printed |-> TRUE, Eel |-> Eel, Vnn |-> Vnn, Et |-> Eel + Vnn,
             count |-> count]
  /\ ret' = [kind |-> "None"]
  /\ pc' = "done"
  /\ UNCHANGED << atoms, R, err, orbitalbasis, K, computed, N, Vnn,
                  iteration, count, Eel, E_old, status, steps, nocc >>
  /\ UNCHANGED << Ndef, files, run, first, call, result, scf >>

\* lines 629-686 executed once more in the same interpreter: the names of
\* the module keep their bindings, the locals of compute_HFenergy are gone
Rerun ==
  /\ pc = "done"
  /\ run = 1
  /\ run' = 2
  /\ first' = [K |-> K, computed |-> computed, N |-> N, Vnn |-> Vnn,
               steps |-> steps, status |-> status, out |-> out]
  /\ pc' = "basis"
  /\ iteration' = -1
  /\ count' = 0
  /\ Eel' = 0
  /\ E_old' = 0
  /\ status' = "Idle"
  /\ steps' = 0
  /\ nocc' = -1
  /\ ret' = [kind |-> "unset"]
  /\ out' = [printed |-> FALSE]
  /\ scf' = [kind |-> "unset"]
  /\ UNCHANGED << atoms, R, err, orbitalbasis, K, computed, N, Vnn, Ndef,
                  files, call, result >>

Next ==
  \/ BuildBasis
  \/ BuildS
  \/ BuildT
  \/ BuildV
  \/ BuildG
  \/ CountElectrons
  \/ NuclearRepulsion
  \/ SCFStart
  \/ SCFIterate
  \/ SCFExhaust
  \/ Report

Spec == Init /\ [][Next]_vars

\* the script, with its pipeline section executed a second time
SpecRerun == Init /\ [][Next \/ Rerun]_vars

\* ------------------------------------------------------ stage predicates
\* build_sto3Gbasis has returned (buildS always follows it)
BasisReturned == pc # "basis" /\ (pc = "failed" => "S" \in computed)

\* electronCount has returned
ElectronsCounted ==
  pc \in {"Vnn", "scf", "loop", "done"} \/ (pc = "failed" /\ "G" \in computed)

\* nuclearRepulsion has returned a value
VnnComputed ==
  pc \in {"scf", "loop", "done"} \/ (pc = "failed" /\ err = "ValueError")

RECURSIVE SetSum(_, _)
SetSum(S, f) ==
  IF S = {} THEN 0
  ELSE LET x == CHOOSE y \in S : TRUE IN f[x] + SetSum(S \ {x}, f)

HasUnsupported(atoms_) ==
  \E i \in 1..Len(atoms_) : atoms_[i] \notin DOMAIN subshells

\* ------------------------------------------- overlap and kinetic integrals
\* int(p/q) of Python: the quotient truncated toward zero
IntTrunc(p, q) == IF p >= 0 THEN p \div q ELSE -((-p) \div q)

\* x**e for the exponents that occur, l-k and m-i of ck and j of si, none
\* of them negative; 0**0 is 1
RECURSIVE Pow(_, _)
Pow(x, e) == IF e <= 0 THEN 1 ELSE x * Pow(x, e - 1)

\* special.binom(n, k)
RECURSIVE binom(_, _)
binom(n, k) ==
  IF k = 0 THEN 1
  ELSE IF n <= 0 THEN 0
  ELSE binom(n - 1, k - 1) + binom(n - 1, k)

\* special.factorial2(n, exact=True), with (-1)!! = 0!! = 1
RECURSIVE factorial2(_)
factorial2(n) ==
  IF n < -1 THEN 0
  ELSE IF n <= 0 THEN 1
  ELSE n * factorial2(n - 2)

\* range(0, n), as a set
range(n) == 0..(n - 1)

ckIndexMutClamp(j, l, m) ==
  LET lc == IF l < 0 THEN 0 ELSE l
      mc == IF m < 0 THEN 0 ELSE m
  IN {p \in range(lc + 1) \X range(mc + 1) : p[2] + p[1] = j}

\* the pairs (k, i) of the double loop of ck, k in range(0,l+1) and i in
\* range(0,m+1), that pass "if i + k == j"
ckIndex(j, l, m) ==
  {p \in range(l + 1) \X range(m + 1) : p[2] + p[1] = j}

\* ck(j,l,m,a,b): the sum of the terms added by the double loop
ck(j, l, m, a_, b_) ==
  LET P == ckIndex(j, l, m)
  IN SetSum(P, [p \in P |-> binom(l, p[1]) * binom(m, p[2])
                              * Pow(a_, l - p[1]) * Pow(b_, m - p[2])])

\* a term of ck raises ZeroDivisionError: 0.0 to a negative power
ckRaises(j, l, m, a_, b_) ==
  \E p \in ckIndex(j, l, m) :
    \/ a_ = 0 /\ l - p[1] < 0
    \/ b_ = 0 /\ m - p[2] < 0

siRaises(lA, lB, Ai, Bi, Pi) ==
  \E j \in range(IntTrunc(lA + lB, 2) + 1) :
    ckRaises(2 * j, lA, lB, Pi - Ai, Pi - Bi)

\* si(lA,lB,g,Ai,Bi,Pi) = sqrt(pi/g) * num / (2g)**e
si(lA, lB, g, Ai, Bi, Pi) ==
  LET J == IntTrunc(lA + lB, 2)
      e == IF J < 0 THEN 0 ELSE J
      js == range(J + 1)
  IN [num |-> SetSum(js, [j \in js |->
                 ck(2 * j, lA, lB, Pi - Ai, Pi - Bi) * factorial2(2 * j - 1)
                   * Pow(2 * g, e - j)]),
      e |-> e]

\* gaussianProduct(a,RA,b,RB,g), for centres where the quotients are whole
gaussianProduct(a_, RA, b_, RB, g) ==
  [i \in 1..3 |-> (a_ * RA[i] + b_ * RB[i]) \div g]

\* Sxyz(...) = (pi/g)**1.5 * num / (2g)**e with g = a + b
Sxyz(RA, RB, a_, b_, lA, lB, mA, mB, nA, nB) ==
  LET RP == gaussianProduct(a_, RA, b_, RB, a_ + b_)
      sx == si(lA, lB, a_ + b_, RA[1], RB[1], RP[1])
      sy == si(mA, mB, a_ + b_, RA[2], RB[2], RP[2])
      sz == si(nA, nB, a_ + b_, RA[3], RB[3], RP[3])
  IN [num |-> sx.num * sy.num * sz.num, e |-> sx.e + sy.e + sz.e]

SxyzRaises(RA, RB, a_, b_, lA, lB, mA, mB, nA, nB) ==
  LET RP == gaussianProduct(a_, RA, b_, RB, a_ + b_)
  IN \/ siRaises(lA, lB, RA[1], RB[1], RP[1])
     \/ siRaises(mA, mB, RA[2], RB[2], RP[2])
     \/ siRaises(nA, nB, RA[3], RB[3], RP[3])

\* the seven terms of Kxyz in the order of the code, each the overlap S it
\* calls for, whether that call raises, and twice the factor it multiplies S
\* with
KxyzTerms(RA, RB, a_, b_, lA, lB, mA, mB, nA, nB) ==
  << [c2 |-> 2 * (b_ * (2 * (lB + mB + nB) + 3)),
      S |-> Sxyz(RA, RB, a_, b_, lA, lB, mA, mB, nA, nB),
      raises |-> SxyzRaises(RA, RB, a_, b_, lA, lB, mA, mB, nA, nB)],
     [c2 |-> -2 * (2 * b_ * b_),
      S |-> Sxyz(RA, RB, a_, b_, lA, lB + 2, mA, mB, nA, nB),
      raises |-> SxyzRaises(RA, RB, a_, b_, lA, lB + 2, mA, mB, nA, nB)],
     [c2 |-> -2 * (2 * b_ * b_),
      S |-> Sxyz(RA, RB, a_, b_, lA, lB, mA, mB + 2, nA, nB),
      raises |-> SxyzRaises(RA, RB, a_, b_, lA, lB, mA, mB + 2, nA, nB)],
     [c2 |-> -2 * (2 * b_ * b_),
      S |-> Sxyz(RA, RB, a_, b_, lA, lB, mA, mB, nA, nB + 2),
      raises |-> SxyzRaises(RA, RB, a_, b_, lA, lB, mA, mB, nA, nB + 2)],
     [c2 |-> -(lB * (lB - 1)),
      S |-> Sxyz(RA, RB, a_, b_, lA, lB - 2, mA, mB, nA, nB),
      raises |-> SxyzRaises(RA, RB, a_, b_, lA, lB - 2, mA, mB, nA, nB)],
     [c2 |-> -(mB * (mB - 1)),
      S |-> Sxyz(RA, RB, a_, b_, lA, lB, mA, mB - 2, nA, nB),
      raises |-> SxyzRaises(RA, RB, a_, b_, lA, lB, mA, mB - 2, nA, nB)],
     [c2 |-> -(nB * (nB - 1)),
      S |-> Sxyz(RA, RB, a_, b_, lA, lB, mA, mB, nA, nB - 2),
      raises |-> SxyzRaises(RA, RB, a_, b_, lA, lB, mA, mB, nA, nB - 2)] >>

\* the largest power of 2g among the denominators of the terms
RECURSIVE MaxE(_, _)
MaxE(terms, i) ==
  IF i > Len(terms) THEN 0
  ELSE LET rest == MaxE(terms, i + 1)
       IN IF terms[i].S.e > rest THEN terms[i].S.e ELSE rest

\* Kxyz(...) = (pi/g)**1.5 * num / (2 * (2g)**e)
Kxyz(RA, RB, a_, b_, lA, lB, mA, mB, nA, nB) ==
  LET terms == KxyzTerms(RA, RB, a_, b_, lA, lB, mA, mB, nA, nB)
      E == MaxE(terms, 1)
      g == a_ + b_
  IN [num |-> SetSum(1..7, [t \in 1..7 |->
                 terms[t].c2 * terms[t].S.num * Pow(2 * g, E - terms[t].S.e)]),
      e |-> E,
      terms |-> terms,
      err |-> IF \E t \in 1..7 : terms[t].raises
                THEN "ZeroDivisionError" ELSE "none"]

\* x is counted in units of 1/XUnit, half the threshold of BoysFunction
XUnit == 2 * 10000000

\* 1e-7
BoysThreshold == XUnit \div 10000000

BoysFunctionMutInclusive(nu, x) ==
  IF x <= BoysThreshold
    THEN [formula |-> "series",
          num |-> XUnit * (2 * nu + 3) - x * (2 * nu + 1),
          den |-> XUnit * (2 * nu + 1) * (2 * nu + 3)]
    ELSE [formula |-> "gamma", nu |-> nu, x |-> x]

\* BoysFunction(nu, x): below the threshold the value
\* 1/(2nu+1) - x/(2nu+3) as the fraction num/den, from the threshold on the
\* expression in special.gamma and special.gammainc of nu+0.5 and x
BoysFunction(nu, x) ==
  IF x < BoysThreshold
    THEN [formula |-> "series",
          num |-> XUnit * (2 * nu + 3) - x * (2 * nu + 1),
          den |-> XUnit * (2 * nu + 1) * (2 * nu + 3)]
    ELSE [formula |-> "gamma", nu |-> nu, x |-> x]

BoysFunctionCalls ==
  {[fn |-> "BoysFunction", nu |-> nu, x |-> x] :
     nu \in 0..MaxNu, x \in 0..MaxX}

\* (l, m, n) of the s and p orbitals
Momenta == {<<0, 0, 0>>, <<1, 0, 0>>, <<0, 1, 0>>, <<0, 0, 1>>}

\* exponents and centres for which the centre of the product lies on a whole
\* coordinate
PrimitiveExponents == {1, 3}

Centres == {Point(0), Point(4)}

KxyzCalls ==
  {[fn |-> "Kxyz", RA |-> RA, RB |-> RB, a |-> ab[1], b |-> ab[2],
    A |-> A, B |-> B] :
     RA \in Centres, RB \in Centres,
     ab \in PrimitiveExponents \X PrimitiveExponents,
     A \in Momenta, B \in Momenta}

\* -------------------------------------------- nuclear attraction integrals
AxisIndexMutWide(lA, lB) ==
  {t \in range(lA + lB + 1) \X range(lA + lB + 1) \X range(lA + lB + 1) :
     /\ t[2] \in range(IntTrunc(t[1], 2) + 1)
     /\ t[3] \in range(IntTrunc(t[1], 2) + 1)}

\* the (l, r, i) of the three loops of Vxyz over one axis: l in
\* range(0,lA+lB+1), r in range(0,int(l/2)+1), i in range(0,int((l-2*r)/2)+1)
AxisIndex(lA, lB) ==
  {t \in range(lA + lB + 1) \X range(lA + lB + 1) \X range(lA + lB + 1) :
     /\ t[2] \in range(IntTrunc(t[1], 2) + 1)
     /\ t[3] \in range(IntTrunc(t[1] - 2 * t[2], 2) + 1)}

BoysArgumentMutDistance(g, PCsq) == g * sqrt(Abs(PCsq))

\* the second argument of BoysFunction in Vxyz: g*abs(PCsq)
BoysArgument(g, PCsq) == g * Abs(PCsq)

\* Vxyz: the evaluations of BoysFunction of its innermost loop body, each
\* with the loop indices of the three axes, and the factor -Z; x is handed
\* to BoysFunction in its unit
Vxyz(lA, mA, nA, lB, mB, nB, a_, b_, RA, RB, RC, Z_) ==
  LET g == a_ + b_
      RP == gaussianProduct(a_, RA, b_, RB, g)
      ABsq == IJsq(RA, RB)
      PCsq == IJsq(RP, RC)
  IN [evals |->
        {[x |-> tx, y |-> ty, z |-> tz,
          nu |-> tx[1] + ty[1] + tz[1] - 2 * (tx[2] + ty[2] + tz[2])
                   - (tx[3] + ty[3] + tz[3]),
          arg |-> BoysArgument(g, PCsq),
          F |-> BoysFunction(
                  tx[1] + ty[1] + tz[1] - 2 * (tx[2] + ty[2] + tz[2])
                    - (tx[3] + ty[3] + tz[3]),
                  BoysArgument(g, PCsq) * XUnit)] :
           tx \in AxisIndex(lA, lB), ty \in AxisIndex(mA, mB),
           tz \in AxisIndex(nA, nB)},
      ABsq |-> ABsq,
      scale |-> -Z_]

VxyzCalls ==
  {[fn |-> "Vxyz", A |-> A, B |-> B, a |-> ab[1], b |-> ab[2],
    RA |-> RA, RB |-> RB, RC |-> RC, Z |-> Z[atom]] :
     A \in Momenta, B \in Momenta,
     ab \in PrimitiveExponents \X PrimitiveExponents,
     RA \in Centres, RB \in Centres, RC \in Centres, atom \in {"H", "O"}}
  \cup
  \* orbitals of higher angular momentum along x and z, which the basis
  \* builder does not emit
  {[fn |-> "Vxyz", A |-> <<lA, 0, nA>>, B |-> <<lB, 0, nB>>, a |-> 1, b |-> 1,
    RA |-> Point(0), RB |-> Point(4), RC |-> Point(4), Z |-> Z["H"]] :
     lA \in 0..MaxL, lB \in 0..MaxL, nA \in 0..MaxL, nB \in 0..MaxL}

\* the concatenation of the sequences ss[i], ss[i+1], ...
RECURSIVE Flatten(_, _)
Flatten(ss, i) == IF i > Len(ss) THEN << >> ELSE ss[i] \o Flatten(ss, i + 1)

\* zip(bA['a'], bA['d']): the pairs of exponent and coefficient
zip(xs, ys) ==
  [p \in 1..(IF Len(xs) < Len(ys) THEN Len(xs) ELSE Len(ys)) |->
     <<xs[p], ys[p]>>]

NucleusIndicesMutFirst(R_) == [C \in 1..1 |-> C]

\* "for C, rC in enumerate(R)" of buildV
NucleusIndices(R_) == [C \in 1..Len(R_) |-> C]

\* the factor -Z of Vxyz
VxyzScale(Z_) == -Z_

\* buildV: the statements "V[C,A,B] += dA*dB*Vxyz(...)" in the order the
\* five loops execute them, each with the cell it adds to, the primitives
\* (p, q) of A and B it is for, and the factor -Z[atoms[C]] of its Vxyz
buildVAdds(basis_, R_, atoms_) ==
  Flatten([A \in 1..Len(basis_) |->
    Flatten([B \in 1..Len(basis_) |->
      Flatten([c \in 1..Len(NucleusIndices(R_)) |->
        Flatten([p \in 1..Len(zip(basis_[A].a, basis_[A].d)) |->
          [q \in 1..Len(zip(basis_[B].a, basis_[B].d)) |->
             [C |-> NucleusIndices(R_)[c], A |-> A, B |-> B, p |-> p, q |-> q,
              RC |-> R_[NucleusIndices(R_)[c]],
              scale |-> VxyzScale(Z[atoms_[NucleusIndices(R_)[c]]])]]
        ], 1)], 1)], 1)], 1)

\* the additions made to the cell V[C,A,B]
VCell(adds, C, A, B) ==
  SelectSeq(adds, LAMBDA t : t.C = C /\ t.A = A /\ t.B = B)

\* Vsum = np.zeros((K,K)); for i in range(len(V)): Vsum += V[i]
Vsum(adds, n_, K_) ==
  [AB \in (1..K_) \X (1..K_) |->
     Flatten([i \in 1..n_ |-> VCell(adds, i, AB[1], AB[2])], 1)]

\* Hcore = T + V of compute_HFenergy, V being the Vsum handed to it
Hcore(Vsum_, K_) ==
  [AB \in (1..K_) \X (1..K_) |-> [T |-> <<"T", AB[1], AB[2]>>, V |-> Vsum_[AB]]]

\* molecules of one or two atoms on the centres
SmallMolecules ==
  UNION {{[atoms |-> as, R |-> rs] :
            as \in [1..k -> {"H", "O"}], rs \in [1..k -> Centres]} :
         k \in 1..2}

buildVCalls ==
  {[fn |-> "buildV", atoms |-> mol.atoms, R |-> mol.R,
    basis |-> build_sto3Gbasis(mol.atoms, mol.R).basis] :
     mol \in SmallMolecules}

\* ------------------------------------------------ charge transfer alchemist
\* a template is the sequence of its literal pieces and its replacement
\* fields; these are the fields
Placeholders ==
  {"{omega}", "{coordinates}", "{filename}", "{gs_filename}", "{ex_filename}"}

\* str.format(**env): every replacement field gives way to its value, and a
\* field without a value raises KeyError
format(template, env) ==
  IF \E i \in 1..Len(template) :
       template[i] \in Placeholders /\ template[i] \notin DOMAIN env
    THEN [err |-> "KeyError", text |-> << >>]
    ELSE [err |-> "none",
          text |-> [i \in 1..Len(template) |->
                      IF template[i] \in Placeholders THEN env[template[i]]
                      ELSE template[i]]]

\* the configuration of the test module, its long literal pieces shortened
mock_config ==
  [gs_filename |-> "mock_gs",
   ex_filename |-> "mock_ex",
   vee_filename |-> "nr_vee",
   vde_filename |-> "nr_vde",
   abs_vibronic_filename |-> "nr_vib_abs",
   ems_vibronic_filename |-> "nr_vib_ems",
   gs_content |-> <<"mock content with ", "{omega}", " and ", "{coordinates}">>,
   ex_content |-> <<"%oldchk=", "{gs_filename}", "_w", "{omega}", ".chk %chk=",
                    "{filename}", "_w", "{omega}", ".chk Iop(3/107=", "{omega}",
                    ") Excited State Opt_Freq in dmso">>,
   vee_content |-> <<"%oldchk=", "{gs_filename}", "_w", "{omega}", ".chk %chk=",
                     "{filename}", "_w", "{omega}", ".chk Iop(3/107=", "{omega}",
                     ") VEE in dmso">>,
   vde_content |-> <<"%oldchk=", "{ex_filename}", "_w", "{omega}", ".chk %chk=",
                     "{filename}", "_w", "{omega}", ".chk Iop(3/107=", "{omega}",
                     ") VDE in dmso">>,
   abs_vib_content |-> <<"%chk=", "{gs_filename}", "_w", "{omega}",
                         ".chk Vibronic Absorption calculation ",
                         "{ex_filename}", "_w", "{omega}", ".chk">>,
   ems_vib_content |-> <<"%chk=", "{gs_filename}", "_w", "{omega}",
                         ".chk Vibronic Emission calculation ",
                         "{ex_filename}", "_w", "{omega}", ".chk">>]

\* the dict file_contents of write_input_files: file name to template, each
\* of the first four with its first format applied, omega staying a field
file_contents(config, coordinates) ==
  (config.gs_filename :>
     format(config.gs_content,
            ("{coordinates}" :> coordinates) @@ ("{omega}" :> "{omega}")
              @@ ("{filename}" :> config.gs_filename)))
  @@ (config.ex_filename :>
     format(config.ex_content,
            ("{gs_filename}" :> config.gs_filename) @@ ("{omega}" :> "{omega}")
              @@ ("{filename}" :> config.ex_filename)))
  @@ (config.vee_filename :>
     format(config.vee_content,
            ("{gs_filename}" :> config.gs_filename) @@ ("{omega}" :> "{omega}")
              @@ ("{filename}" :> config.vee_filename)))
  @@ (config.vde_filename :>
     format(config.vde_content,
            ("{ex_filename}" :> config.ex_filename) @@ ("{omega}" :> "{omega}")
              @@ ("{filename}" :> config.vde_filename)))
  @@ (config.abs_vibronic_filename :>
     [err |-> "none", text |-> config.abs_vib_content])
  @@ (config.ems_vibronic_filename :>
     [err |-> "none", text |-> config.ems_vib_content])

\* f'{filename}_w{omega}.com'
ComName(filename, omega) == <<filename, "_w", omega, ".com">>

\* the file the loop body leaves behind for one omega and one file name:
\* opened for writing, and written unless the format raised
WrittenFile(config, contents, filename, omega) ==
  LET r == format(contents[filename].text,
                  ("{omega}" :> omega)
                    @@ ("{gs_filename}" :> config.gs_filename)
                    @@ ("{ex_filename}" :> config.ex_filename))
  IN [name |-> ComName(filename, omega),
      content |-> IF r.err = "none" THEN r.text ELSE << >>]

\* write_input_files(omega_values, config, coordinates): the files of the
\* directory after it, and what it returns; it has no return statement
write_input_files(omega_values, config, coordinates, files_) ==
  LET contents == file_contents(config, coordinates)
      written == {WrittenFile(config, contents, fn, omega_values[k]) :
                    fn \in DOMAIN contents, k \in 1..Len(omega_values)}
  IN IF \E fn \in DOMAIN contents : contents[fn].err # "none"
       THEN [err |-> "KeyError", value |-> "None", files |-> files_]
       ELSE [err |-> "none", value |-> "None",
             files |-> {f \in files_ :
                          \A w \in written : w.name # f.name} \cup written]

OmegaValues == {"0100000000", "0200000000"}

mock_coordinates == "C 0.0 0.0 0.0\nH 1.0 1.0 1.0"

write_input_filesCalls ==
  {[fn |-> "write_input_files", omega_values |-> ws, coordinates |-> cs] :
     ws \in SeqsUpTo(OmegaValues, 2),
     cs \in {mock_coordinates, "O 0.0 0.0 0.0"}}

\* ------------------------------------------- electron repulsion integrals
GAxisIndexMutWide(lA, lB, lC, lD) ==
  {t \in range(lA + lB + 1) \X range(lA + lB + 1) \X range(lC + lD + 1)
           \X range(lC + lD + 1) \X range(lA + lB + lC + lD + 1) :
     /\ t[2] \in range(IntTrunc(t[1], 2) + 1)
     /\ t[4] \in range(IntTrunc(t[3], 2) + 1)
     /\ t[5] \in range(IntTrunc(t[1] + t[3], 2) + 1)}

\* the (l, r, lp, rp, i) of the five loops of Gxyz over one axis: l in
\* range(0,lA+lB+1), r in range(0,int(l/2)+1), lp in range(0,lC+lD+1), rp in
\* range(0,int(lp/2)+1), i in range(0,int((l+lp-2*r-2*rp)/2)+1)
GAxisIndex(lA, lB, lC, lD) ==
  {t \in range(lA + lB + 1) \X range(lA + lB + 1) \X range(lC + lD + 1)
           \X range(lC + lD + 1) \X range(lA + lB + lC + lD + 1) :
     /\ t[2] \in range(IntTrunc(t[1], 2) + 1)
     /\ t[4] \in range(IntTrunc(t[3], 2) + 1)
     /\ t[5] \in range(IntTrunc(t[1] + t[3] - 2 * t[2] - 2 * t[4], 2) + 1)}

\* the second argument of BoysFunction in Gxyz: PQsq/(4*delta) with
\* delta = 1/(4*gP) + 1/(4*gQ), for exponents where the quotient is whole
BoysArgumentG(PQsq, gP, gQ) == (PQsq * gP * gQ) \div (gP + gQ)

\* nu = l+lp+m+mp+n+np-2*(r+rp+s+sp+t+tp)-(i+j+k)
GxyzNu(tx, ty, tz) ==
  tx[1] + tx[3] + ty[1] + ty[3] + tz[1] + tz[3]
    - 2 * (tx[2] + tx[4] + ty[2] + ty[4] + tz[2] + tz[4])
    - (tx[5] + ty[5] + tz[5])

\* Gxyz: the evaluations of BoysFunction of its innermost loop body, each
\* with the loop indices of the three axes
Gxyz(A, B, C, D, a_, b_, c_, d_, RA, RB, RC, RD) ==
  LET gP == a_ + b_
      gQ == c_ + d_
      RP == gaussianProduct(a_, RA, b_, RB, gP)
      RQ == gaussianProduct(c_, RC, d_, RD, gQ)
      PQsq == IJsq(RP, RQ)
  IN [evals |->
        {[x |-> tx, y |-> ty, z |-> tz,
          nu |-> GxyzNu(tx, ty, tz),
          arg |-> BoysArgumentG(PQsq, gP, gQ),
          F |-> BoysFunction(GxyzNu(tx, ty, tz),
                             BoysArgumentG(PQsq, gP, gQ) * XUnit)] :
           tx \in GAxisIndex(A[1], B[1], C[1], D[1]),
           ty \in GAxisIndex(A[2], B[2], C[2], D[2]),
           tz \in GAxisIndex(A[3], B[3], C[3], D[3])},
      ABsq |-> IJsq(RA, RB),
      CDsq |-> IJsq(RC, RD)]

\* exponents with a + b = c + d
GxyzExponents == {<<1, 1, 1, 1>>, <<1, 3, 3, 1>>, <<3, 3, 3, 3>>}

\* the centres of the four orbitals
GxyzCentres ==
  {<<Point(0), Point(0), Point(0), Point(0)>>,
   <<Point(0), Point(4), Point(0), Point(4)>>,
   <<Point(0), Point(0), Point(4), Point(4)>>,
   <<Point(0), Point(4), Point(4), Point(0)>>}

GxyzCalls ==
  {[fn |-> "Gxyz", A |-> A, B |-> B, C |-> C, D |-> D, abcd |-> e, Rs |-> rs] :
     A \in Momenta, B \in Momenta, C \in Momenta, D \in Momenta,
     e \in GxyzExponents, rs \in GxyzCentres}
  \cup
  \* orbitals of higher angular momentum, which the basis builder does not
  \* emit
  {[fn |-> "Gxyz", A |-> <<lA, 0, 0>>, B |-> <<lB, 0, 0>>,
    C |-> <<lC, 0, nC>>, D |-> <<0, 0, 0>>, abcd |-> <<1, 1, 1, 1>>,
    Rs |-> <<Point(0), Point(4), Point(4), Point(4)>>] :
     lA \in 0..MaxL, lB \in 0..MaxL, lC \in 0..MaxL, nC \in 0..MaxL}

\* --------------------------------------------- the builders and their array
\* an array is held as the sum each of its cells stands for, a sequence of
\* terms: np.zeros is the empty sum everywhere
Zeros(cells) == [c \in cells |-> << >>]

\* an array holding the value 1.0 in every cell
Ones(cells) == [c \in cells |-> << [init |-> "1.0"] >>]

\* the cell a statement addresses: its fields named by index, in order
CellOf(t, index) == [i \in 1..Len(index) |-> t[index[i]]]

AccumulateMutOverwrite(X, adds, index) ==
  [c \in DOMAIN X |-> SelectSeq(adds, LAMBDA t : CellOf(t, index) = c)]

\* the statements "X[cell] += term" of a builder, executed in order on the
\* array X
Accumulate(X, adds, index) ==
  [c \in DOMAIN X |->
     X[c] \o SelectSeq(adds, LAMBDA t : CellOf(t, index) = c)]

\* buildS and buildT: the statements "S[A,B] += ..." ("T[A,B] += ...") in
\* the order the four loops execute them
PairAdds(basis_) ==
  Flatten([A \in 1..Len(basis_) |->
    Flatten([B \in 1..Len(basis_) |->
      Flatten([p \in 1..Len(zip(basis_[A].a, basis_[A].d)) |->
        [q \in 1..Len(zip(basis_[B].a, basis_[B].d)) |->
           [A |-> A, B |-> B, p |-> p, q |-> q]]
      ], 1)], 1)], 1)

\* buildG: the statements "G[A,B,C,D] += tei" in the order the eight loops
\* execute them
QuadAdds(basis_) ==
  Flatten([A \in 1..Len(basis_) |->
    Flatten([B \in 1..Len(basis_) |->
      Flatten([C \in 1..Len(basis_) |->
        Flatten([D \in 1..Len(basis_) |->
          Flatten([p \in 1..Len(zip(basis_[A].a, basis_[A].d)) |->
            Flatten([q \in 1..Len(zip(basis_[B].a, basis_[B].d)) |->
              Flatten([r \in 1..Len(zip(basis_[C].a, basis_[C].d)) |->
                [s \in 1..Len(zip(basis_[D].a, basis_[D].d)) |->
                   [A |-> A, B |-> B, C |-> C, D |-> D,
                    p |-> p, q |-> q, r |-> r, s |-> s]]
  ], 1)], 1)], 1)], 1)], 1)], 1)], 1)

\* buildS(basis, S), returning S
buildSOn(basis_, S_) ==
  Accumulate(S_, PairAdds(basis_), <<"A", "B">>)

\* buildT(basis, T), returning T
buildTOn(basis_, T_) ==
  Accumulate(T_, PairAdds(basis_), <<"A", "B">>)

\* buildV(basis, V, R, Z, atoms), returning V
buildVOn(basis_, V_, R_, atoms_) ==
  Accumulate(V_, buildVAdds(basis_, R_, atoms_), <<"C", "A", "B">>)

\* buildG(basis, G, K), returning G
buildGOn(basis_, G_) ==
  Accumulate(G_, QuadAdds(basis_), <<"A", "B", "C", "D">>)

\* the cells of the array each builder is handed by the script:
\* np.zeros((K,K)), np.zeros((n,K,K)), np.zeros((K,K,K,K))
Cells(builder, K_, n_) ==
  IF builder \in {"buildS", "buildT"} THEN (1..K_) \X (1..K_)
  ELSE IF builder = "buildV" THEN (1..n_) \X (1..K_) \X (1..K_)
  ELSE (1..K_) \X (1..K_) \X (1..K_) \X (1..K_)

\* a builder applied to an array of zeros or of ones, once, or a second time
\* to the array it returned; buildG for the molecules of hydrogens only
BuilderCalls ==
  {[fn |-> "builder", builder |-> b, atoms |-> mol.atoms, R |-> mol.R,
    basis |-> build_sto3Gbasis(mol.atoms, mol.R).basis,
    array |-> x, times |-> k] :
     b \in {"buildS", "buildT", "buildV"}, mol \in SmallMolecules,
     x \in {"zeros", "ones"}, k \in 1..2}
  \cup
  {[fn |-> "builder", builder |-> "buildG", atoms |-> mol.atoms, R |-> mol.R,
    basis |-> build_sto3Gbasis(mol.atoms, mol.R).basis,
    array |-> x, times |-> k] :
     mol \in {m \in SmallMolecules :
                \A i \in 1..Len(m.atoms) : m.atoms[i] = "H"},
     x \in {"zeros", "ones"}, k \in 1..2}

\* the array handed to the builder
ArrayOf(c) ==
  IF c.array = "zeros"
    THEN Zeros(Cells(c.builder, Len(c.basis), Len(c.atoms)))
    ELSE Ones(Cells(c.builder, Len(c.basis), Len(c.atoms)))

\* ------------------------------------------- functions called on their own
\* the geometries of a diatomic on the z axis, nuclei apart
Diatomics ==
  {<<Point(z1), Point(z2)>> : z1 \in 0..MaxCoord, z2 \in 0..MaxCoord} \ 
    {<<Point(z), Point(z)>> : z \in 0..MaxCoord}

\* nuclearRepulsion(atoms) for a molecule of the caller, whose positions
\* call.R the signature has no parameter for
NuclearRepulsionCalls ==
  {[fn |-> "nuclearRepulsion", atoms |-> as, R |-> rs] :
     as \in [1..2 -> {"H", "O"}], rs \in Diatomics}

CallInputs ==
  NuclearRepulsionCalls \cup BoysFunctionCalls \cup KxyzCalls
    \cup VxyzCalls \cup buildVCalls \cup write_input_filesCalls
    \cup GxyzCalls \cup BuilderCalls

\* the module-level geometries a call is made under: all of them for the
\* function that reads the module-level R, one for the others
ModuleGeometries(c) ==
  IF c.fn = "nuclearRepulsion" THEN Diatomics ELSE {<<Point(0), Point(1)>>}

\* the module with its definitions and its molecule bound (lines 1-627),
\* and one call to make
InitCalls ==
  /\ call \in CallInputs
  /\ atoms = <<"H", "H">>
  /\ R \in ModuleGeometries(call)
  /\ pc = "basis"
  /\ err = "none"
  /\ orbitalbasis = << >>
  /\ K = 0
  /\ computed = {}
  /\ N = 0
  /\ Vnn = 0
  /\ iteration = -1
  /\ count = 0
  /\ Eel = 0
  /\ E_old = 0
  /\ status = "Idle"
  /\ steps = 0
  /\ nocc = -1
  /\ ret = [kind |-> "unset"]
  /\ out = [printed |-> FALSE]
  /\ Ndef = TRUE
  /\ files = {}
  /\ run = 1
  /\ first = [kind |-> "unset"]
  /\ result = [kind |-> "unset"]
  /\ scf = [kind |-> "unset"]

Pending(fn) == call.fn = fn /\ result = [kind |-> "unset"]

Returned(fn) == call.fn = fn /\ result # [kind |-> "unset"]

CallNuclearRepulsion ==
  /\ Pending("nuclearRepulsion")
  /\ LET r == nuclearRepulsion(call.atoms) IN
       result' = [kind |-> "returned", err |-> r.err, Vnn |-> r.Vnn]
  /\ UNCHANGED << script, files, call >>

CallBoysFunction ==
  /\ Pending("BoysFunction")
  /\ result' = [kind |-> "returned", F |-> BoysFunction(call.nu, call.x)]
  /\ UNCHANGED << script, files, call >>

CallKxyz ==
  /\ Pending("Kxyz")
  /\ LET r == Kxyz(call.RA, call.RB, call.a, call.b, call.A[1], call.B[1],
                   call.A[2], call.B[2], call.A[3], call.B[3])
     IN result' = [kind |-> "returned", err |-> r.err, terms |-> r.terms,
                   K |-> IF r.err = "none" THEN [num |-> r.num, e |-> r.e]
                         ELSE [num |-> 0, e |-> 0]]
  /\ UNCHANGED << script, files, call >>

\* Vxyz calls the module-level N(a,l,m,n) after its loops
CallVxyz ==
  /\ Pending("Vxyz")
  /\ LET r == Vxyz(call.A[1], call.A[2], call.A[3], call.B[1], call.B[2],
                   call.B[3], call.a, call.b, call.RA, call.RB, call.RC,
                   call.Z)
     IN result' = IF Ndef
                    THEN [kind |-> "returned", err |-> "none",
                          evals |-> r.evals, scale |-> r.scale]
                    ELSE [kind |-> "returned", err |-> "TypeError",
                          evals |-> r.evals, scale |-> 0]
  /\ UNCHANGED << script, files, call >>

\* V = buildV(orbitalbasis, V, R, Z, atoms), the sum of its slices, and the
\* core Hamiltonian made of it
CallBuildV ==
  /\ Pending("buildV")
  /\ LET e == IF Ndef THEN buildV(call.basis, call.R, call.atoms)
                      ELSE "TypeError"
         adds == buildVAdds(call.basis, call.R, call.atoms)
         K_ == Len(call.basis)
     IN result' = IF e = "none"
                    THEN [kind |-> "returned", err |-> e, adds |-> adds,
                          Hcore |-> Hcore(Vsum(adds, NumAtoms(call.atoms), K_),
                                          K_)]
                    ELSE [kind |-> "returned", err |-> e]
  /\ UNCHANGED << script, files, call >>

CallWriteInputFiles ==
  /\ Pending("write_input_files")
  /\ LET r == write_input_files(call.omega_values, mock_config,
                                call.coordinates, files)
     IN /\ result' = [kind |-> "returned", err |-> r.err, value |-> r.value]
        /\ files' = r.files
  /\ UNCHANGED << script, call >>

\* Gxyz calls the module-level N(a,l,m,n) after its loops
CallGxyz ==
  /\ Pending("Gxyz")
  /\ LET r == Gxyz(call.A, call.B, call.C, call.D, call.abcd[1], call.abcd[2],
                   call.abcd[3], call.abcd[4], call.Rs[1], call.Rs[2],
                   call.Rs[3], call.Rs[4])
     IN result' = [kind |-> "returned",
                   err |-> IF Ndef THEN "none" ELSE "TypeError",
                   evals |-> r.evals]
  /\ UNCHANGED << script, files, call >>

\* the array a builder returned, or the array the call was made with: a
\* second call is made with the array the first returned
Handed(c, returned) == IF c.times = 1 THEN ArrayOf(c) ELSE returned

CallBuildS ==
  /\ Pending("builder")
  /\ call.builder = "buildS"
  /\ result' = [kind |-> "returned", err |-> buildS(call.basis, Ndef),
                tensor |-> buildSOn(call.basis,
                             Handed(call, buildSOn(call.basis,
                                                   ArrayOf(call))))]
  /\ UNCHANGED << script, files, call >>

CallBuildT ==
  /\ Pending("builder")
  /\ call.builder = "buildT"
  /\ result' = [kind |-> "returned", err |-> buildT(call.basis, Ndef),
                tensor |-> buildTOn(call.basis,
                             Handed(call, buildTOn(call.basis,
                                                   ArrayOf(call))))]
  /\ UNCHANGED << script, files, call >>

CallBuildVOn ==
  /\ Pending("builder")
  /\ call.builder = "buildV"
  /\ result' = [kind |-> "returned",
                err |-> buildV(call.basis, call.R, call.atoms),
                tensor |-> buildVOn(call.basis,
                             Handed(call, buildVOn(call.basis, ArrayOf(call),
                                                   call.R, call.atoms)),
                             call.R, call.atoms)]
  /\ UNCHANGED << script, files, call >>

CallBuildG ==
  /\ Pending("builder")
  /\ call.builder = "buildG"
  /\ result' = [kind |-> "returned", err |-> buildG(call.basis, Ndef),
                tensor |-> buildGOn(call.basis,
                             Handed(call, buildGOn(call.basis,
                                                   ArrayOf(call))))]
  /\ UNCHANGED << script, files, call >>

NextCalls ==
  \/ CallNuclearRepulsion
  \/ CallBoysFunction
  \/ CallKxyz
  \/ CallVxyz
  \/ CallBuildV
  \/ CallWriteInputFiles
  \/ CallGxyz
  \/ CallBuildS
  \/ CallBuildT
  \/ CallBuildVOn
  \/ CallBuildG

SpecCalls == InitCalls /\ [][NextCalls]_vars

\* ------------------------------------------------------------------ claims
\* C1: the number of SCF iteration steps executed never exceeds
\* scf_max_iter.
C1_StepsWithinMaxIter == steps <= scf_max_iter

\* C2: after every iteration step the loop has stopped as Converged if and
\* only if that step was not the first (iteration > 0) and
\* |Eel - E_old| < convergence, where E_old is the energy of the preceding
\* step (0 before the first); and no step is executed from a state whose
\* last step satisfied the condition.
C2_ConvergedIff ==
  /\ [](steps > 0 =>
          /\ (status = "Converged")
               <=> (iteration > 0 /\ Abs(Eel - E_old) < convergence)
          /\ (steps = 1 => E_old = 0))
  /\ [][steps' = steps + 1 =>
          /\ E_old' = Eel
          /\ ~(steps > 0 /\ iteration > 0 /\ Abs(Eel - E_old) < convergence)
       ]_vars

\* C2 witness: the first step produced an energy within the threshold of
\* 0.0 without stopping the loop, and the second step converged.
C2_Witness ==
  status = "Converged" /\ iteration = 1 /\ E_old = 0 /\ steps = 2

\* C3: a run that ended in MaxIterReached returns the last energy
\* Eel + Vnn together with a non-convergence signal, and a run that ended in
\* Converged does not carry that signal.
C3_NonConvergenceSignalled ==
  /\ (pc = "done" /\ status = "MaxIterReached") =>
       /\ DOMAIN ret = {"energy", "converged"}
       /\ ret.energy = Eel + Vnn
       /\ ret.converged = FALSE
  /\ (pc = "done" /\ status = "Converged") =>
       ~(DOMAIN ret = {"energy", "converged"} /\ ret.converged = FALSE)

\* labels the subshell table of an atom stands for
RECURSIVE Labels(_, _)
Labels(list, j) ==
  IF j > Len(list) THEN << >>
  ELSE (IF list[j] = "2p" THEN <<"2px", "2py", "2pz">> ELSE << list[j] >>)
         \o Labels(list, j + 1)

LabelsOf(atom) == Labels(subshells[atom], 1)

Triple(label) ==
  CASE label = "2px" -> <<1, 0, 0>>
    [] label = "2py" -> <<0, 1, 0>>
    [] label = "2pz" -> <<0, 0, 1>>
    [] OTHER -> <<0, 0, 0>>

\* orbitals emitted for the atoms before atom i
Offset(atoms_, i) ==
  SetSum(1..(i - 1), [j \in 1..(i - 1) |-> Len(LabelsOf(atoms_[j]))])

\* C4: the basis lists the atoms in order and, within an atom, the labels
\* of its subshell table in order, '2p' standing for 2px, 2py, 2pz with
\* triples (1,0,0), (0,1,0), (0,0,1); 1s uses exponent row 0 and d[0], 2s
\* row 1 and d[1], every 2p orbital row 1 and d[2]; every orbital of atom i
\* has the centre R[i] and the atomic number of atom i.
C4_BasisOrder ==
  BasisReturned =>
    /\ Len(orbitalbasis) = Offset(atoms, Len(atoms) + 1)
    /\ \A i \in 1..Len(atoms) :
         \A p \in 1..Len(LabelsOf(atoms[i])) :
           LET o == orbitalbasis[Offset(atoms, i) + p]
               label == LabelsOf(atoms[i])[p]
           IN /\ o.o = label
              /\ <<o.l, o.m, o.n>> = Triple(label)
              /\ o.R = R[i]
              /\ o.Z = Z[atoms[i]]
              /\ o.a = a[Z[atoms[i]]][IF label = "1s" THEN 1 ELSE 2]
              /\ o.d = d[CASE label = "1s" -> 1 [] label = "2s" -> 2
                           [] OTHER -> 3]

\* C4 witness: a basis was returned for a molecule with an oxygen that is
\* not the first atom.
C4_Witness ==
  /\ BasisReturned
  /\ Len(atoms) >= 2
  /\ atoms[1] = "H"
  /\ atoms[2] = "O"

\* C5 as stated: K is the length of the basis and the sum of 1 per hydrogen
\* and 4 per oxygen.
C5_Original ==
  BasisReturned =>
    /\ K = Len(orbitalbasis)
    /\ K = SetSum(1..Len(atoms),
                  [i \in 1..Len(atoms) |->
                     IF subshells[atoms[i]] = <<"1s">> THEN 1 ELSE 4])

\* C5 amended: K is the length of the basis and the sum of 1 per atom whose
\* subshell table is ['1s'] and 5 per atom whose table is ['1s','2s','2p'].
C5_BasisSize ==
  BasisReturned =>
    /\ K = Len(orbitalbasis)
    /\ K = SetSum(1..Len(atoms),
                  [i \in 1..Len(atoms) |->
                     IF subshells[atoms[i]] = <<"1s">> THEN 1 ELSE 5])

\* C5 witness: a basis was returned for a molecule with both kinds of atom.
C5_Witness ==
  /\ BasisReturned
  /\ \E i \in 1..Len(atoms) : atoms[i] = "O"
  /\ \E i \in 1..Len(atoms) : atoms[i] = "H"

\* C6: for ['O','H','H'] the basis has K = 7 orbitals, 1s 2s 2px 2py 2pz on
\* O then 1s on each H, and N = 10; for every molecule N is the sum of the
\* atomic numbers of its atoms.
C6_WaterAndElectronCount ==
  /\ (BasisReturned /\ atoms = <<"O", "H", "H">>) =>
       /\ K = 7
       /\ [k \in 1..Len(orbitalbasis) |-> orbitalbasis[k].o]
            = <<"1s", "2s", "2px", "2py", "2pz", "1s", "1s">>
       /\ [k \in 1..Len(orbitalbasis) |-> orbitalbasis[k].Z]
            = <<8, 8, 8, 8, 8, 1, 1>>
  /\ ElectronsCounted =>
       /\ N = SetSum(1..Len(atoms), [i \in 1..Len(atoms) |-> Z[atoms[i]]])
       /\ (atoms = <<"O", "H", "H">> => N = 10)

\* C6 witness: the run on water finished.
C6_Witness == atoms = <<"O", "H", "H">> /\ pc = "done"

\* C7: for a molecule (as many coordinates as symbols) with a symbol that
\* has no subshell-table entry, build_sto3Gbasis raises the lookup error of
\* the subshell table, no basis is returned and no integral is computed.
C7_UnsupportedElement ==
  (pc # "basis" /\ HasUnsupported(atoms) /\ Len(R) = Len(atoms)) =>
    /\ pc = "failed"
    /\ err = "KeyError"
    /\ orbitalbasis = << >>
    /\ K = 0
    /\ computed = {}

\* C7 witness: the builder failed on carbon after it had processed an
\* oxygen.
C7_Witness ==
  /\ pc = "failed"
  /\ err = "KeyError"
  /\ Len(R) = Len(atoms)
  /\ Len(atoms) >= 2
  /\ atoms[1] = "O"
  /\ atoms[2] = "C"

\* C8: when the symbol list and the coordinate list differ in length no
\* basis orbital and no integral is ever produced and the run does not
\* complete.
C8_ShapeMismatchRejected ==
  Len(atoms) # Len(R) =>
    /\ orbitalbasis = << >>
    /\ computed = {}
    /\ pc # "done"

\* C9: the density is never built from floor(N/2) orbitals for an odd N.
C9_OddElectronCountFlagged ==
  nocc >= 0 => N % 2 = 0

\* the pair term Z_a*Z_b/|R_a-R_b| of atoms on the z axis
PairTerm(p) ==
  (Z[atoms[p[1]]] * Z[atoms[p[2]]] * EnergyUnit)
    \div Abs(R[p[1]][3] - R[p[2]][3])

Pairs(n) == {p \in (1..n) \X (1..n) : p[1] < p[2]}

\* C10: Vnn is the sum of Z_a*Z_b/|R_a-R_b| over the index pairs a < b, each
\* once, and 0 for a molecule of zero or one atom.
C10_PairSum ==
  VnnComputed =>
    /\ Vnn = SetSum(Pairs(Len(atoms)),
                    [p \in Pairs(Len(atoms)) |-> PairTerm(p)])
    /\ (Len(atoms) <= 1 => Vnn = 0)

\* C10 witness: the repulsion of a three-atom molecule was computed.
C10_Witness == VnnComputed /\ Len(atoms) = 3

\* C12: a second execution of the pipeline section completes as the first
\* did: it does not fail, and it returns the same basis size, electron count
\* and nuclear repulsion; the module-level names are bound as before it.
C12_SecondRunSameAsFirst ==
  run = 2 =>
    /\ pc # "failed"
    /\ (pc \notin {"basis"} => K = first.K)
    /\ (pc = "done" => N = first.N /\ Vnn = first.Vnn
                         /\ computed = first.computed)

\* C13: the pipeline leaves the working directory as it found it.
C13_NoFileWritten == files = {}

OrbitalLabels == {"1s", "2s", "2px", "2py", "2pz"}

\* C16: every orbital of the basis carries one of the five labels, a
\* non-negative (l,m,n) whose sum is 0 for 1s/2s and 1 for 2px/2py/2pz, and
\* three exponents and three coefficients.
C16_OrbitalShape ==
  \A i \in 1..Len(orbitalbasis) :
    LET o == orbitalbasis[i] IN
      /\ o.o \in OrbitalLabels
      /\ o.l >= 0 /\ o.m >= 0 /\ o.n >= 0
      /\ (o.o \in {"1s", "2s"} => o.l + o.m + o.n = 0)
      /\ (o.o \in {"2px", "2py", "2pz"} => o.l + o.m + o.n = 1)
      /\ Len(o.a) = 3
      /\ Len(o.d) = 3

\* C16 witness: a basis holding s and p orbitals was returned.
C16_Witness ==
  /\ BasisReturned
  /\ \E i \in 1..Len(orbitalbasis) : orbitalbasis[i].o = "2pz"
  /\ \E i \in 1..Len(orbitalbasis) : orbitalbasis[i].o = "1s"

\* the pair sum of Z_a*Z_b/|R_a-R_b| over the positions R_
PairSumOver(atoms_, R_) ==
  SetSum(Pairs(Len(atoms_)),
         [p \in Pairs(Len(atoms_)) |->
            (Z[atoms_[p[1]]] * Z[atoms_[p[2]]] * EnergyUnit)
              \div Abs(R_[p[1]][3] - R_[p[2]][3])])

\* C11: nuclearRepulsion called for a molecule returns the pair sum over
\* the positions of that molecule, whatever the module-level molecule is.
C11_UsesGivenPositions ==
  Returned("nuclearRepulsion") =>
    /\ result.err = "none"
    /\ result.Vnn = PairSumOver(call.atoms, call.R)

\* C14: BoysFunction(nu, x) returns the series value 1/(2nu+1) - x/(2nu+3)
\* for x < 1e-7 and the incomplete-gamma expression for x >= 1e-7, x = 1e-7
\* included; BoysFunction(0, 0) is 1.
C14_BoysBranch ==
  Returned("BoysFunction") =>
    LET nu == call.nu
        x == call.x
        F == result.F
    IN /\ (x < BoysThreshold =>
             /\ F.formula = "series"
             /\ F.den = (2 * nu + 1) * (2 * nu + 3) * XUnit
             /\ F.num = (2 * nu + 3) * XUnit - (2 * nu + 1) * x)
       /\ (x >= BoysThreshold => F = [formula |-> "gamma", nu |-> nu, x |-> x])
       /\ (nu = 0 /\ x = 0 => F.formula = "series" /\ F.num = F.den)

\* C14 witness: BoysFunction was called with x exactly 1e-7.
C14_Witness == Returned("BoysFunction") /\ call.x = BoysThreshold

\* C18: in Kxyz every term whose overlap is called with a negative angular
\* momentum (lB-2, mB-2 or nB-2 for an s or p orbital B) has the overlap 0
\* and contributes 0 to K, and the call raises no error.
C18_NegativeMomentumTermsVanish ==
  Returned("Kxyz") =>
    /\ result.err = "none"
    /\ \A t \in 5..7 :
         call.B[t - 4] - 2 < 0 =>
           /\ result.terms[t].S.num = 0
           /\ ~result.terms[t].raises
           /\ result.terms[t].c2 * result.terms[t].S.num = 0

\* C18 witness: Kxyz returned for a p orbital A and an s orbital B on
\* different centres, so that lA + lB - 2 = -1 truncates to 0.
C18_Witness ==
  /\ Returned("Kxyz")
  /\ call.A = <<0, 0, 1>> /\ call.B = <<0, 0, 0>>
  /\ call.RA # call.RB
  /\ result.terms[1].S.num # 0

\* the centre of the Gaussian product on the z axis
ProductCentre(c) == (c.a * c.RA[3] + c.b * c.RB[3]) \div (c.a + c.b)

\* C20 as stated: every Boys evaluation of Vxyz receives
\* nu = l+m+n-2(r+s+t)-(i+j+k) and x = g*|RP-RC|, the distance not squared.
C20_Original ==
  Returned("Vxyz") =>
    \A ev \in result.evals :
      /\ ev.nu = ev.x[1] + ev.y[1] + ev.z[1]
                   - 2 * (ev.x[2] + ev.y[2] + ev.z[2])
                   - (ev.x[3] + ev.y[3] + ev.z[3])
      /\ ev.arg = (call.a + call.b) * Abs(ProductCentre(call) - call.RC[3])

\* C20: every Boys evaluation of Vxyz receives
\* nu = l+m+n-2(r+s+t)-(i+j+k) and x = g*|RP-RC|^2, g times the squared
\* distance of the product centre from the nucleus.
C20_BoysArguments ==
  Returned("Vxyz") =>
    \A ev \in result.evals :
      /\ ev.nu = ev.x[1] + ev.y[1] + ev.z[1]
                   - 2 * (ev.x[2] + ev.y[2] + ev.z[2])
                   - (ev.x[3] + ev.y[3] + ev.z[3])
      /\ ev.arg = (call.a + call.b)
                    * (ProductCentre(call) - call.RC[3])
                    * (ProductCentre(call) - call.RC[3])
      /\ ev.F = BoysFunction(ev.nu, ev.arg * XUnit)

\* C20 witness: Vxyz returned for two p orbitals along z, with the nucleus
\* two or more away from the product centre, and evaluated the Boys function
\* of order 2.
C20_Witness ==
  /\ Returned("Vxyz")
  /\ Abs(ProductCentre(call) - call.RC[3]) >= 2
  /\ \E ev \in result.evals : ev.nu = 2 /\ ev.z[1] = 2

\* the (C, A, B, p, q) of an addition of buildV
AddIndex(t) == <<t.C, t.A, t.B, t.p, t.q>>

\* C19: buildV makes exactly one addition to V[C,A,B] per ordered orbital
\* pair (A,B), nucleus C and primitive pair, C running over every atom, each
\* scaled by -Z of nucleus C; and Hcore[A,B] is T[A,B] plus the additions
\* of all slices V[C] to that cell.
C19_OneTermPerNucleus ==
  Returned("buildV") =>
    LET K_ == Len(call.basis)
        n_ == Len(call.atoms)
        adds == result.adds
        All == (1..n_) \X (1..K_) \X (1..K_) \X (1..3) \X (1..3)
    IN /\ result.err = "none"
       /\ Len(adds) = Cardinality(All)
       /\ {AddIndex(adds[k]) : k \in 1..Len(adds)} = All
       /\ \A k \in 1..Len(adds) :
            /\ adds[k].scale = -Z[call.atoms[adds[k].C]]
            /\ adds[k].RC = call.R[adds[k].C]
       /\ \A AB \in (1..K_) \X (1..K_) :
            /\ result.Hcore[AB].T = <<"T", AB[1], AB[2]>>
            /\ Len(result.Hcore[AB].V) = n_ * 9
            /\ {AddIndex(result.Hcore[AB].V[k]) : k \in 1..(n_ * 9)}
                 = {i \in All : i[2] = AB[1] /\ i[3] = AB[2]}

\* C19 witness: buildV returned for a molecule of two different atoms, and
\* the cell of an orbital pair on the first atom received an addition for
\* the other nucleus.
C19_Witness ==
  /\ Returned("buildV")
  /\ call.atoms = <<"O", "H">>
  /\ \E k \in 1..Len(result.adds) :
       /\ result.adds[k].C = 2
       /\ result.adds[k].A = 1 /\ result.adds[k].B = 1
       /\ result.adds[k].scale = -1

\* C17: write_input_files returns a mapping from file name to content that
\* holds, for every omega, an entry '<gs_filename>_w<omega>.com' whose
\* content contains that omega and the coordinates.
C17_ReturnsMapping ==
  Returned("write_input_files") /\ call.omega_values # << >> =>
    /\ result.value # "None"
    /\ \A k \in 1..Len(call.omega_values) :
         LET name == ComName(mock_config.gs_filename, call.omega_values[k])
         IN /\ name \in DOMAIN result.value
            /\ \E i \in 1..Len(result.value[name]) :
                 result.value[name][i] = call.omega_values[k]
            /\ \E i \in 1..Len(result.value[name]) :
                 result.value[name][i] = call.coordinates

\* two of the atoms sit at the same position
Coincident ==
  \E i \in 1..Len(atoms) : \E j \in 1..Len(atoms) :
    i < j /\ j <= Len(R) /\ R[i] = R[j]

\* C24: a geometry with two atoms at the same position raises no error: the
\* run does not stop with a division error, and goes on to the SCF solver
\* with whatever value the nuclear repulsion gave.
C24_DegenerateGeometryRunsOn ==
  Coincident /\ Len(atoms) = Len(R) /\ ~HasUnsupported(atoms) =>
    /\ err # "ZeroDivisionError"
    /\ pc # "failed"

\* C25: at termination the reported iteration count is the number of
\* iteration steps executed, after convergence and after exhaustion alike.
C25_ReportedCountIsSteps ==
  pc = "done" => out.count = steps

\* C26: the number of occupied orbitals int(N/2) the density is built from
\* never exceeds the basis size K.
C26_OccupiedWithinBasis ==
  nocc >= 0 => nocc <= K /\ nocc = IntTrunc(N, 2)

\* C26 witness: the density of a molecule holding an oxygen was built from
\* at least four occupied orbitals.
C26_Witness ==
  /\ pc = "loop" /\ steps > 0
  /\ nocc >= 4
  /\ \E i \in 1..Len(atoms) : atoms[i] = "O"

\* an exponent, held as <<whole, fraction>>, is above zero
PositiveExponent(e) == e[1] > 0 \/ (e[1] = 0 /\ e[2] > 0)

\* the exponents of the primitives of the basis
BasisExponents ==
  UNION {{orbitalbasis[i].a[p] : p \in 1..Len(orbitalbasis[i].a)} :
            i \in 1..Len(orbitalbasis)}

\* C28: for every element with a subshell entry Z-1 indexes the exponent
\* table, every exponent of every orbital of the basis is strictly positive,
\* and so is a + b for every pair of primitives.
C28_ExponentsPositive ==
  /\ \A s \in DOMAIN subshells : (Z[s] - 1) + 1 \in DOMAIN a
  /\ \A i \in 1..Len(orbitalbasis) : \A p \in 1..Len(orbitalbasis[i].a) :
       PositiveExponent(orbitalbasis[i].a[p])
  /\ LET E == BasisExponents
     IN \A e1 \in E : \A e2 \in E :
          \/ e1[1] + e2[1] > 0
          \/ e1[1] + e2[1] = 0 /\ e1[2] + e2[2] > 0

\* C28 witness: a basis with the orbitals of a hydrogen and of an oxygen was
\* returned.
C28_Witness ==
  /\ BasisReturned
  /\ \E i \in 1..Len(orbitalbasis) : orbitalbasis[i].Z = 1
  /\ \E i \in 1..Len(orbitalbasis) :
       orbitalbasis[i].Z = 8 /\ orbitalbasis[i].o = "2px"

\* C29: for every index tuple reached by the loops of Vxyz the Boys order
\* nu = l+m+n-2(r+s+t)-(i+j+k) lies in 0..lA+lB+mA+mB+nA+nB, and the
\* factorial arguments and exponents l-2r-2i, m-2s-2j, n-2t-2k of vi are
\* not negative.
C29_VxyzIndexRanges ==
  Returned("Vxyz") =>
    \A ev \in result.evals :
      /\ ev.nu = ev.x[1] + ev.y[1] + ev.z[1]
                   - 2 * (ev.x[2] + ev.y[2] + ev.z[2])
                   - (ev.x[3] + ev.y[3] + ev.z[3])
      /\ 0 <= ev.nu
      /\ ev.nu <= call.A[1] + call.B[1] + call.A[2] + call.B[2]
                    + call.A[3] + call.B[3]
      /\ \A t \in {ev.x, ev.y, ev.z} :
           /\ t[1] >= 0 /\ t[2] >= 0 /\ t[3] >= 0
           /\ t[1] - 2 * t[2] - 2 * t[3] >= 0

\* C29 witness: Vxyz returned for orbitals of angular momentum 2 along x,
\* and its loops reached l = 4 with r = 1 and i = 1.
C29_Witness ==
  /\ Returned("Vxyz")
  /\ call.A[1] = 2 /\ call.B[1] = 2
  /\ \E ev \in result.evals : ev.x = <<4, 1, 1>>

\* C30: for every index tuple reached by the loops of Gxyz the Boys order
\* nu = l+lp+m+mp+n+np-2(r+rp+s+sp+t+tp)-(i+j+k) lies between 0 and the sum
\* of the twelve angular momenta, and on every axis l-2r, lp-2rp,
\* l+lp-2r-2rp and l+lp-2(r+rp+i) are not negative.
C30_GxyzIndexRanges ==
  Returned("Gxyz") =>
    \A ev \in result.evals :
      /\ ev.nu = ev.x[1] + ev.x[3] + ev.y[1] + ev.y[3] + ev.z[1] + ev.z[3]
                   - 2 * (ev.x[2] + ev.x[4] + ev.y[2] + ev.y[4]
                            + ev.z[2] + ev.z[4])
                   - (ev.x[5] + ev.y[5] + ev.z[5])
      /\ 0 <= ev.nu
      /\ ev.nu <= SetSum(1..3, [k \in 1..3 |->
                     call.A[k] + call.B[k] + call.C[k] + call.D[k]])
      /\ \A t \in {ev.x, ev.y, ev.z} :
           /\ \A k \in 1..5 : t[k] >= 0
           /\ t[1] - 2 * t[2] >= 0
           /\ t[3] - 2 * t[4] >= 0
           /\ t[1] + t[3] - 2 * t[2] - 2 * t[4] >= 0
           /\ t[1] + t[3] - 2 * (t[2] + t[4] + t[5]) >= 0

\* C30 witness: Gxyz returned for orbitals of angular momentum 2 along x,
\* and its loops reached l = 4, r = 1, lp = 2, rp = 1 with i = 1.
C30_Witness ==
  /\ Returned("Gxyz")
  /\ call.A[1] = 2 /\ call.B[1] = 2 /\ call.C[1] = 2
  /\ \E ev \in result.evals : ev.x = <<4, 1, 2, 1, 1>>

\* how often the term t occurs in the sum a cell stands for
Occurrences(sum, t) == Cardinality({k \in 1..Len(sum) : sum[k] = t})

\* the number of primitive terms of one cell: 3 x 3 for S, T and V,
\* 3 x 3 x 3 x 3 for G
TermsPerCell(builder) == IF builder = "buildG" THEN 81 ELSE 9

\* C27: a builder adds its integrals onto the array it is handed: every cell
\* keeps what it held and gains each primitive term of its integral once per
\* call, so the result is the integral tensor only for an array of zeros,
\* and a second call on the returned array leaves every integral twice.
C27_BuildersAccumulate ==
  Returned("builder") =>
    LET X0 == ArrayOf(call)
        n == TermsPerCell(call.builder)
    IN /\ result.err = "none"
       /\ DOMAIN result.tensor = DOMAIN X0
       /\ \A c \in DOMAIN X0 :
            LET sum == result.tensor[c]
                gained == SubSeq(sum, Len(X0[c]) + 1, Len(sum))
            IN /\ SubSeq(sum, 1, Len(X0[c])) = X0[c]
               /\ Len(gained) = call.times * n
               /\ \A k \in 1..Len(gained) :
                    /\ "init" \notin DOMAIN gained[k]
                    /\ Occurrences(gained, gained[k]) = call.times
               /\ (call.times = 2 =>
                     SubSeq(gained, 1, n) = SubSeq(gained, n + 1, 2 * n))
               /\ (sum = SubSeq(gained, 1, n)
                     <=> call.array = "zeros" /\ call.times = 1)

\* C27 witness: buildG was called a second time on the array it returned
\* for two hydrogens, starting from an array of ones.
C27_Witness ==
  /\ Returned("builder")
  /\ call.builder = "buildG" /\ call.times = 2 /\ call.array = "ones"
  /\ Len(call.basis) = 2
  /\ Len(result.tensor[<<1, 2, 2, 1>>]) = 163

\* the loop of compute_HFenergy has been entered
InLoop == pc \in {"loop", "done"} /\ "P" \in DOMAIN scf

\* C21: in the first iteration the density is the zero matrix, so P is the
\* zero matrix and F has the value of Hcore = T + V whatever G is; the
\* orbitals, the density and Eel of that iteration do not depend on G.
C21_FirstIterationIgnoresG ==
  (InLoop /\ steps = 1) =>
     /\ scf["P"].zero
     /\ scf["P"].from[1] = <<"D", 0>>
     /\ scf["F"].val = scf["Hcore"].val
     /\ scf["Hcore"].from = << <<"T", 0>>, <<"V", 0>> >>
     /\ "G" \notin scf["F"].deps \cup scf["C"].deps \cup scf["D"].deps
                     \cup scf["Eel"].deps

\* the first iteration has run on a molecule with occupied orbitals
C21_Witness ==
  /\ InLoop /\ steps = 1 /\ nocc > 0
  /\ scf["F"].tag = <<"F", 1>> /\ scf["D"].tag = <<"D", 1>>
  /\ ~scf["D"].zero

\* C22: in step k of the loop P is computed from the density of step k-1
\* (the zeros before the loop in step 1) and G only, F from Hcore and that
\* P, the orbitals from X and that F, the density from those orbitals
\* only, and Eel from the new density, Hcore and that same F; P, D and Eel
\* keep nothing of their own previous content.
C22_IterationOrder ==
  (InLoop /\ steps >= 1) =>
     /\ scf["P"].from = << <<"D", steps - 1>>, <<"G", 0>> >>
     /\ scf["F"].from = << <<"Hcore", 0>>, <<"P", steps>> >>
     /\ scf["C"].from = << <<"X", 0>>, <<"F", steps>> >>
     /\ scf["D"].from = << <<"C", steps>> >>
     /\ scf["Eel"].from = << <<"D", steps>>, <<"Hcore", 0>>, <<"F", steps>> >>
     /\ \A name \in {"P", "F", "C", "D", "Eel"} :
           scf[name].tag = <<name, steps>>

\* the second iteration has run from a density that is not zero
C22_Witness ==
  /\ InLoop /\ steps = 2 /\ nocc > 0
  /\ scf["P"].from[1] = <<"D", 1>> /\ ~scf["P"].zero
  /\ "G" \in scf["Eel"].deps

\* C23: in every iteration and after the loop the arrays S, T, V and G that
\* were passed in have the content they were passed with, and Hcore and X
\* have the content they were given before the loop.
C23_SolverOnlyReads ==
  InLoop =>
     /\ \A name \in {"S", "T", "V", "G"} : scf[name] = Argument(name)
     /\ \A name \in {"Hcore", "X"} : scf[name] = BeforeLoop(K)[name]
     /\ scf["Hcore"].from = << <<"T", 0>>, <<"V", 0>> >>
     /\ scf["X"].from = << <<"S", 0>> >>

\* the solver has finished after several iterations that read every array
C23_Witness ==
  /\ pc = "done" /\ "P" \in DOMAIN scf /\ steps >= 2 /\ nocc > 0
  /\ scf["Eel"].deps = {"S", "T", "V", "G", "N"}

====
